---- MODULE Spec2Model ----
(***************************************************************************)
(* Alignment of SnowMicroPen (SMP) profiles with snow-pit density cutter   *)
(* measurements: the notebook cell that runs the brute-force search over   *)
(* random stretch plans, the filtering cell after it, and the helper       *)
(* functions of smpfunc the cell calls.                                    *)
(*                                                                         *)
(* Units.  Depths of the resampled profile are in mm.  Stretch factors are *)
(* in percent (100 = identity), so a scaled depth axis is in 1/100 mm.     *)
(* A real number that may be fractional or NaN is a pair <<num, den>>;     *)
(* NaN is <<0, 0>>.                                                        *)
(***************************************************************************)
EXTENDS Integers, Sequences, FiniteSets, TLC

(***************************************************************************)
(* Settings of the notebook (first code cell).  H_RESAMPLE and the two     *)
(* stretch limits have the values of the source (the limits in percent).   *)
(* CUTTER_SIZE, L_RESAMPLE and NUM_TESTS are run parameters of the         *)
(* notebook (15 mm, 50 mm and 10000 there); the model runs them at reduced *)
(* values so that whole profiles and whole candidate sets are enumerated.  *)
(***************************************************************************)
CUTTER_SIZE == 2

H_RESAMPLE == 1

L_RESAMPLE == 8

MAX_STRETCH_LAYER == 75

MAX_STRETCH_OVERALL == 15

NUM_TESTS == 2

\* The seed set by np.random.seed when paper_conditions is True.
PAPER_SEED == 2019

\* Rejected draws counted inside one call of random_stretch: retries stops
\* counting there, the loop of the generator itself is unbounded.
MaxRetries == 1

\* The smallest amount by which a drawn deviation exceeds the overall limit.
Eps == 1

\* Profiles in one batch (smp_data).
MaxBatch == 2

(***************************************************************************)
(* Arithmetic helpers.                                                     *)
(***************************************************************************)
Abs(a) == IF a < 0 THEN -a ELSE a

\* np.ceil(a / b) for a >= 0, b > 0
Ceil(a, b) == (a + b - 1) \div b

RECURSIVE SeqSum(_)
SeqSum(s) == IF s = << >> THEN 0 ELSE s[1] + SeqSum(Tail(s))

RECURSIVE Gcd(_, _)
Gcd(a, b) == IF b = 0 THEN a ELSE Gcd(b, a % b)

NaN == <<0, 0>>

IsNaN(q) == q[2] = 0

\* a rational in lowest terms (NaN stays NaN)
Norm(q) ==
    IF q[2] = 0 THEN NaN
    ELSE LET g == Gcd(Abs(q[1]), q[2]) IN <<q[1] \div g, q[2] \div g>>

\* a/b < c/d for non-negative rationals, by the Euclidean expansion of both
\* (no product is formed, so nothing overflows)
RECURSIVE RatLess(_, _)
RatLess(p, q) ==
    LET ip == p[1] \div p[2]
        iq == q[1] \div q[2]
        rp == p[1] % p[2]
        rq == q[1] % q[2]
    IN  IF ip # iq THEN ip < iq
        ELSE IF rq = 0 THEN FALSE
        ELSE IF rp = 0 THEN TRUE
        ELSE RatLess(<<q[2], rq>>, <<p[2], rp>>)

RatEq(p, q) == ~RatLess(p, q) /\ ~RatLess(q, p)

(***************************************************************************)
(* Field data: pit_summary, pit_density and the SMP calibration profiles.  *)
(* MPD is the Magnaprobe snow thickness times 1000 (mm), TOP is in cm.     *)
(* A profile carries the series the SLF package derives from it            *)
(* (proksch2015.calc, loewe2012.calc): distance, P2015_density,            *)
(* force_median and L2012_L.                                               *)
(***************************************************************************)
pit_summary ==
    << [ID |-> 1, SMPF |-> 101, MPD |-> 15],
       [ID |-> 2, SMPF |-> 102, MPD |-> 7],
       [ID |-> 3, SMPF |-> 104, MPD |-> 3] >>

pit_density ==
    << [index |-> 0, ID |-> 1, TOP |-> 2, RHO |-> 5, TYPE |-> "R"],
       [index |-> 1, ID |-> 1, TOP |-> 1, RHO |-> 1, TYPE |-> "F"],
       [index |-> 2, ID |-> 2, TOP |-> 2, RHO |-> 3, TYPE |-> "N"],
       [index |-> 3, ID |-> 2, TOP |-> 1, RHO |-> 2, TYPE |-> "H"],
       [index |-> 4, ID |-> 3, TOP |-> 1, RHO |-> 2, TYPE |-> "F"] >>

Profiles ==
    << [name |-> 101,
        distance      |-> <<0, 2, 4, 6, 8, 10, 12, 14>>,
        P2015_density |-> <<5, 1, 1, 3, 1, 1, 1, 5>>,
        force_median  |-> <<1, 3, 3, 1, 1, 3, 5, 5>>,
        L2012_L       |-> <<4, 2, 2, 4, 4, 2, 0, 2>>],
       [name |-> 102,
        distance      |-> <<0, 2, 4>>,
        P2015_density |-> <<3, 3, 1>>,
        force_median  |-> <<2, 4, 2>>,
        L2012_L       |-> <<1, 1, 3>>],
       [name |-> 103,
        distance      |-> <<0, 2, 4>>,
        P2015_density |-> <<1, 3, 3>>,
        force_median  |-> <<2, 2, 2>>,
        L2012_L       |-> <<3, 1, 1>>],
       [name |-> 104,
        distance      |-> <<0, 2>>,
        P2015_density |-> <<2, 4>>,
        force_median  |-> <<1, 3>>,
        L2012_L       |-> <<2, 2>>] >>

\* the batches smp_data can hold: lists of distinct profiles.  The last
\* profile, too short to fill any cutter window, is run on its own only
\* (RunBatches).
Batches ==
    { b \in UNION { [1..n -> 1..(Len(Profiles) - 1)] : n \in 1..MaxBatch } :
        \A i, j \in DOMAIN b : i # j => b[i] # b[j] }

(***************************************************************************)
(* Resampling onto the common depth axis (np.arange, np.interp).           *)
(***************************************************************************)
SeqMax(s) == CHOOSE m \in {s[i] : i \in DOMAIN s} : \A i \in DOMAIN s : s[i] <= m

\* np.arange(0, stop, step)
Arange(stop, step) == [k \in 1..(IF stop > 0 THEN Ceil(stop, step) ELSE 0) |-> (k - 1) * step]

\* an interpolation that carries the last slope on beyond the last point
InterpLastSlope(x, xp, fp) ==
    IF x <= xp[1] THEN fp[1]
    ELSE LET n == Len(xp)
             j == IF x >= xp[n] THEN n - 1
                  ELSE CHOOSE j \in 1..(n - 1) : xp[j] <= x /\ x < xp[j + 1]
         IN  fp[j] + ((fp[j + 1] - fp[j]) * (x - xp[j])) \div (xp[j + 1] - xp[j])

\* np.interp(x, xp, fp) at one point: linear between the neighbours, the
\* boundary value outside [xp[0], xp[-1]]
Interp(x, xp, fp) ==
    IF x <= xp[1] THEN fp[1]
    ELSE IF x >= xp[Len(xp)] THEN fp[Len(xp)]
    ELSE LET j == CHOOSE j \in 1..(Len(xp) - 1) : xp[j] <= x /\ x < xp[j + 1]
         IN  fp[j] + ((fp[j + 1] - fp[j]) * (x - xp[j])) \div (xp[j + 1] - xp[j])

InterpAll(xs, xp, fp) == [k \in DOMAIN xs |-> Interp(xs[k], xp, fp)]

\* a resampling that lays the new depth axis beside the series as recorded
ResampledProfileSeriesKept(p, pit) ==
    LET smp_profile_height == SeqMax(p.distance)
        smp_height_diff == pit.MPD - smp_profile_height
        depth_array == Arange(smp_profile_height + smp_height_diff, H_RESAMPLE)
    IN  [distance     |-> depth_array,
         density      |-> p.P2015_density,
         force_median |-> p.force_median,
         l            |-> p.L2012_L]

\* smp_df of one profile and its matched pit row
ResampledProfile(p, pit) ==
    LET smp_profile_height == SeqMax(p.distance)
        smp_height_diff == pit.MPD - smp_profile_height
        depth_array == Arange(smp_profile_height + smp_height_diff, H_RESAMPLE)
    IN  [distance     |-> depth_array,
         density      |-> InterpAll(depth_array, p.distance, p.P2015_density),
         force_median |-> InterpAll(depth_array, p.distance, p.force_median),
         l            |-> InterpAll(depth_array, p.distance, p.L2012_L)]

NumSections(df) == Ceil(Len(df.distance), L_RESAMPLE)

(***************************************************************************)
(* Matching a profile to its pit (pit_df, density_df).                     *)
(***************************************************************************)
MatchingPits(smp_file_num) == SelectSeq(pit_summary, LAMBDA row : row.SMPF = smp_file_num)

RowsOfPit(id) == SelectSeq(pit_density, LAMBDA row : row.ID = id)

\* a relative_height without the absolute value
AssignRelativeHeightSigned(rows) ==
    LET topmax == SeqMax([k \in DOMAIN rows |-> rows[k].TOP])
    IN  [k \in DOMAIN rows |->
            [index |-> rows[k].index, ID |-> rows[k].ID, TOP |-> rows[k].TOP,
             RHO |-> rows[k].RHO, TYPE |-> rows[k].TYPE,
             relative_height |-> ((rows[k].TOP * 10) - CUTTER_SIZE) - topmax * 10]]

\* density_df.assign(relative_height = ...)
AssignRelativeHeight(rows) ==
    LET topmax == SeqMax([k \in DOMAIN rows |-> rows[k].TOP])
    IN  [k \in DOMAIN rows |->
            [index |-> rows[k].index, ID |-> rows[k].ID, TOP |-> rows[k].TOP,
             RHO |-> rows[k].RHO, TYPE |-> rows[k].TYPE,
             relative_height |-> Abs(((rows[k].TOP * 10) - CUTTER_SIZE) - topmax * 10)]]

\* density_df with the relative_height column assigned
DensityDf(id) == AssignRelativeHeight(RowsOfPit(id))

RelativeHeights(ddf) == [k \in DOMAIN ddf |-> ddf[k].relative_height]

(***************************************************************************)
(* smpfunc.random_stretch(x, overall, layer): one candidate plan.  It is   *)
(* given the number of sections and the two limits only.  A draw is x      *)
(* factors, each within the layer limit; the draw is accepted when its net *)
(* stretch does not exceed the overall limit, otherwise drawn again.       *)
(***************************************************************************)
\* deviations (percent) a draw of the uniform source is sampled at
Deviations ==
    { -MAX_STRETCH_LAYER, -MAX_STRETCH_OVERALL, 0, MAX_STRETCH_OVERALL,
      MAX_STRETCH_OVERALL + Eps, MAX_STRETCH_LAYER }

Factors == { 100 + d : d \in Deviations }

Draws(x) == [1..x -> Factors]

\* sum of (factor - 1) over the sections, in percent
StretchSum(plan) == SeqSum([k \in DOMAIN plan |-> plan[k] - 100])

\* |net stretch| <= overall, the net stretch being the mean deviation of
\* the x sections
WithinOverall(plan, overall) == Abs(StretchSum(plan)) <= overall * Len(plan)

(***************************************************************************)
(* smpfunc.scale_profile(plan, distance, values, L, H): the depth axis     *)
(* with each section's span multiplied by its factor and later sections    *)
(* shifted by the length change of the earlier ones; the values are        *)
(* carried along.  Result: <<depth axis in 1/100 mm, values>>.             *)
(***************************************************************************)
SectionOf(d, layer) == (d \div layer) + 1

\* sections left where they start in the unscaled profile
SectionStartUnshifted(plan, k, layer) == (k - 1) * layer * 100

SectionStart(plan, k, layer) == SeqSum([j \in 1..(k - 1) |-> layer * plan[j]])

\* a depth measured to the far edge of the sample
ScaledDepthFarEdge(plan, d, layer) ==
    LET k == SectionOf(d, layer)
    IN  SectionStart(plan, k, layer) + (d - (k - 1) * layer + H_RESAMPLE) * plan[k]

ScaledDepth(plan, d, layer) ==
    LET k == SectionOf(d, layer)
    IN  SectionStart(plan, k, layer) + (d - (k - 1) * layer) * plan[k]

scale_profile(plan, distance, values, layer, h) ==
    << [i \in DOMAIN distance |-> ScaledDepth(plan, distance[i], layer)], values >>

(***************************************************************************)
(* smpfunc.extract_samples(dist, values, centers, cutter): per window the  *)
(* number of points inside [center - cutter, center + cutter] and the mean *)
(* of their values (NaN for an empty window).                              *)
(***************************************************************************)
\* a window open at its far end
InWindowBelowTop(d, center, cutter) ==
    (center - cutter) * 100 <= d /\ d < (center + cutter) * 100

InWindow(d, center, cutter) == (center - cutter) * 100 <= d /\ d <= (center + cutter) * 100

\* an extractor that takes the points from the first one inside the window
\* to the last one inside it, as a search in a sorted axis gives them
extract_samplesSlice(dist, values, centers, cutter) ==
    [w \in DOMAIN centers |->
        LET inside == {i \in DOMAIN dist : InWindow(dist[i], centers[w], cutter)}
            slice == {i \in DOMAIN dist : \E a, b \in inside : a <= i /\ i <= b}
            count == Cardinality(slice)
            total == SeqSum([i \in DOMAIN dist |-> IF i \in slice THEN values[i] ELSE 0])
        IN  [count_samp |-> count,
             mean_samp  |-> IF count = 0 THEN NaN ELSE <<total, count>>]]

extract_samples(dist, values, centers, cutter) ==
    [w \in DOMAIN centers |->
        LET inside == [i \in DOMAIN dist |-> InWindow(dist[i], centers[w], cutter)]
            count == SeqSum([i \in DOMAIN dist |-> IF inside[i] THEN 1 ELSE 0])
            total == SeqSum([i \in DOMAIN dist |-> IF inside[i] THEN values[i] ELSE 0])
        IN  [count_samp |-> count,
             mean_samp  |-> IF count = 0 THEN NaN ELSE <<total, count>>]]

\* pd.concat([profile, density_df.reset_index()], axis=1): row k of the
\* extraction beside row k of the pit measurements
\* the labels of a frame in ascending order
SortedLabels(S) ==
    [i \in 1..Cardinality(S) |-> CHOOSE x \in S : Cardinality({y \in S : y < x}) = i - 1]

\* a concat of the samples with density_df under its own index: the rows
\* are joined label by label, a side without the label left empty
ConcatRowsOwnIndex(samples, ddf) ==
    LET labels == SortedLabels((0..(Len(samples) - 1)) \cup {ddf[k].index : k \in DOMAIN ddf})
    IN  [i \in DOMAIN labels |->
            LET s == IF labels[i] < Len(samples) THEN samples[labels[i] + 1]
                     ELSE [count_samp |-> 0, mean_samp |-> NaN]
                held == {k \in DOMAIN ddf : ddf[k].index = labels[i]}
                d == IF held # {} THEN ddf[CHOOSE k \in held : TRUE]
                     ELSE [index |-> labels[i], ID |-> 0, TOP |-> 0, RHO |-> 0, TYPE |-> "N",
                           relative_height |-> 0]
            IN  [count_samp |-> s.count_samp, mean_samp |-> s.mean_samp,
                 index |-> d.index, ID |-> d.ID, TOP |-> d.TOP,
                 RHO |-> d.RHO, TYPE |-> d.TYPE,
                 relative_height |-> d.relative_height]]

ConcatRows(samples, ddf) ==
    [k \in DOMAIN samples |->
        [count_samp |-> samples[k].count_samp, mean_samp |-> samples[k].mean_samp,
         index |-> ddf[k].index, ID |-> ddf[k].ID, TOP |-> ddf[k].TOP,
         RHO |-> ddf[k].RHO, TYPE |-> ddf[k].TYPE,
         relative_height |-> ddf[k].relative_height]]

(***************************************************************************)
(* smpfunc.calc_skill(profile, cutter): (r, rmse, rmse_corr, mae) between  *)
(* the extracted means and the pit densities over the valid rows (rows     *)
(* with a NaN mean or fewer than 2 * cutter enclosed points are removed).  *)
(* With c_k the counts of the n valid rows and D their product, the means  *)
(* are X_k / D for integers X_k.  r is <<sign, num, den>> with             *)
(* r^2 = num/den (NaN: den = 0); rmse and rmse_corr are held as their      *)
(* squares, which order the same way; mae is a plain rational.             *)
(***************************************************************************)
RECURSIVE SeqProd(_)
SeqProd(s) == IF s = << >> THEN 1 ELSE s[1] * SeqProd(Tail(s))

Sign(a) == IF a > 0 THEN 1 ELSE IF a < 0 THEN -1 ELSE 0

NaNr == <<0, 0, 0>>

IsValidRow(row, cutter) == ~IsNaN(row.mean_samp) /\ row.count_samp >= 2 * cutter

\* the rows with a mean, however few points it was taken over
ValidRowsAnyCount(profile, cutter) ==
    SelectSeq(profile, LAMBDA row : ~IsNaN(row.mean_samp))

ValidRows(profile, cutter) == SelectSeq(profile, LAMBDA row : IsValidRow(row, cutter))

Pearson(n, sx, sy, sxx, syy, sxy) ==
    LET cxy == n * sxy - sx * sy
        vx == n * sxx - sx * sx
        vy == n * syy - sy * sy
    IN  IF n < 2 \/ vx = 0 \/ vy = 0 THEN NaNr
        ELSE LET q == Norm(<<cxy * cxy, vx * vy>>) IN <<Sign(cxy), q[1], q[2]>>

calc_skill(profile, cutter) ==
    LET v == ValidRows(profile, cutter)
        n == Len(v)
        D == SeqProd([k \in 1..n |-> v[k].mean_samp[2]])
        X == [k \in 1..n |-> v[k].mean_samp[1] * (D \div v[k].mean_samp[2])]
        Y == [k \in 1..n |-> v[k].RHO]
        E == [k \in 1..n |-> X[k] - Y[k] * D]
        se == SeqSum(E)
        see == SeqSum([k \in 1..n |-> E[k] * E[k]])
    IN  IF n = 0 THEN [r |-> NaNr, rmse |-> NaN, rmse_corr |-> NaN, mae |-> NaN]
        ELSE [r |-> Pearson(n, SeqSum(X), SeqSum(Y),
                            SeqSum([k \in 1..n |-> X[k] * X[k]]),
                            SeqSum([k \in 1..n |-> Y[k] * Y[k]]),
                            SeqSum([k \in 1..n |-> X[k] * Y[k]])),
              rmse |-> Norm(<<see, n * D * D>>),
              rmse_corr |-> Norm(<<n * see - se * se, n * n * D * D>>),
              mae |-> Norm(<<SeqSum([k \in 1..n |-> Abs(E[k])]), n * D>>)]

(***************************************************************************)
(* retrieved_skill.sort_values(['r', 'rmse_corr'], ascending=[False,       *)
(* True]).head(1).index: r descending, then rmse_corr ascending, NaN last  *)
(* in each key, equal keys in their original order.                        *)
(***************************************************************************)
IsNaNr(r) == r[3] = 0

\* r1 > r2 for two defined correlations
RGreater(r1, r2) ==
    \/ r1[1] > r2[1]
    \/ r1[1] = 1 /\ r2[1] = 1 /\ RatLess(<<r2[2], r2[3]>>, <<r1[2], r1[3]>>)
    \/ r1[1] = -1 /\ r2[1] = -1 /\ RatLess(<<r1[2], r1[3]>>, <<r2[2], r2[3]>>)

REqual(r1, r2) ==
    IF IsNaNr(r1) \/ IsNaNr(r2) THEN IsNaNr(r1) /\ IsNaNr(r2)
    ELSE ~RGreater(r1, r2) /\ ~RGreater(r2, r1)

\* a descending sort that puts the undefined keys first
RFirstNaNFirst(r1, r2) ==
    IF IsNaNr(r1) THEN ~IsNaNr(r2) ELSE ~IsNaNr(r2) /\ RGreater(r1, r2)

\* key a sorts strictly before key b
RFirst(r1, r2) == ~IsNaNr(r1) /\ (IsNaNr(r2) \/ RGreater(r1, r2))

ErrFirst(e1, e2) == ~IsNaN(e1) /\ (IsNaN(e2) \/ RatLess(e1, e2))

\* a sort on r alone
SortsBeforeByR(s1, s2) == RFirst(s1.r, s2.r)

SortsBefore(s1, s2) ==
    \/ RFirst(s1.r, s2.r)
    \/ REqual(s1.r, s2.r) /\ ErrFirst(s1.rmse_corr, s2.rmse_corr)

\* the index label (0-based) of the first row of the sorted table
HeadIndex(skill) ==
    LET tops == {i \in DOMAIN skill : \A j \in DOMAIN skill : ~SortsBefore(skill[j], skill[i])}
    IN  (CHOOSE i \in tops : \A j \in tops : i <= j) - 1

(***************************************************************************)
(* The rows one profile adds to comparison_df: the comparison of the best  *)
(* candidate with l and force_median extracted from the profile scaled by  *)
(* the plan appended last to min_scaling_coeff.                            *)
(***************************************************************************)
\* l taken from the profile as resampled, every factor 1
BestRowsUnscaledL(compare, plan, df, ddf) ==
    LET sl == scale_profile([k \in DOMAIN plan |-> 100], df.distance, df.l,
                            L_RESAMPLE, H_RESAMPLE)
        sf == scale_profile(plan, df.distance, df.force_median, L_RESAMPLE, H_RESAMPLE)
        el == extract_samples(sl[1], sl[2], RelativeHeights(ddf), CUTTER_SIZE)
        ef == extract_samples(sf[1], sf[2], RelativeHeights(ddf), CUTTER_SIZE)
    IN  [k \in DOMAIN compare |->
            [count_samp |-> compare[k].count_samp, mean_samp |-> compare[k].mean_samp,
             index |-> compare[k].index, ID |-> compare[k].ID, TOP |-> compare[k].TOP,
             RHO |-> compare[k].RHO, TYPE |-> compare[k].TYPE,
             relative_height |-> compare[k].relative_height,
             l |-> el[k].mean_samp, force_median |-> ef[k].mean_samp]]

BestRows(compare, plan, df, ddf) ==
    LET sl == scale_profile(plan, df.distance, df.l, L_RESAMPLE, H_RESAMPLE)
        sf == scale_profile(plan, df.distance, df.force_median, L_RESAMPLE, H_RESAMPLE)
        el == extract_samples(sl[1], sl[2], RelativeHeights(ddf), CUTTER_SIZE)
        ef == extract_samples(sf[1], sf[2], RelativeHeights(ddf), CUTTER_SIZE)
    IN  [k \in DOMAIN compare |->
            [count_samp |-> compare[k].count_samp, mean_samp |-> compare[k].mean_samp,
             index |-> compare[k].index, ID |-> compare[k].ID, TOP |-> compare[k].TOP,
             RHO |-> compare[k].RHO, TYPE |-> compare[k].TYPE,
             relative_height |-> compare[k].relative_height,
             l |-> el[k].mean_samp, force_median |-> ef[k].mean_samp]]

(***************************************************************************)
(* The filtering cell: dropna, the count threshold, the layer types.       *)
(***************************************************************************)
HasNaN(row) == IsNaN(row.mean_samp) \/ IsNaN(row.l) \/ IsNaN(row.force_median)

DropNa(table) == SelectSeq(table, LAMBDA row : ~HasNaN(row))

\* a threshold that drops the count 2 * CUTTER_SIZE as well
CountFilterAbove(table) == SelectSeq(table, LAMBDA row : row.count_samp > CUTTER_SIZE * 2)

CountFilter(table) == SelectSeq(table, LAMBDA row : row.count_samp >= CUTTER_SIZE * 2)

TypeFilter(table) == SelectSeq(table, LAMBDA row : row.TYPE \notin {"N", "I"})

WithError(table) ==
    [k \in DOMAIN table |->
        [count_samp |-> table[k].count_samp, mean_samp |-> table[k].mean_samp,
         index |-> table[k].index, ID |-> table[k].ID, TOP |-> table[k].TOP,
         RHO |-> table[k].RHO, TYPE |-> table[k].TYPE,
         relative_height |-> table[k].relative_height,
         l |-> table[k].l, force_median |-> table[k].force_median,
         error |-> <<table[k].mean_samp[1] - table[k].RHO * table[k].mean_samp[2],
                     table[k].mean_samp[2]>>]]

FilteredResult(table) == WithError(TypeFilter(CountFilter(DropNa(table))))

(***************************************************************************)
(* Result sets a previous run may have left in                             *)
(* ./output/smp_pit_comparison.pkl.                                        *)
(***************************************************************************)
PickleRow(id, top, type, count, mean, l, force) ==
    [count_samp |-> count, mean_samp |-> mean, index |-> 0, ID |-> id, TOP |-> top,
     RHO |-> 3, TYPE |-> type, relative_height |-> CUTTER_SIZE,
     l |-> l, force_median |-> force]

PickleTables ==
    { << PickleRow(1, 2, "R", 2 * CUTTER_SIZE, <<7, 2 * CUTTER_SIZE>>, <<5, 2 * CUTTER_SIZE>>, <<6, 2 * CUTTER_SIZE>>),
         PickleRow(1, 1, "F", 2 * CUTTER_SIZE - 1, <<4, 2 * CUTTER_SIZE - 1>>, <<3, 2 * CUTTER_SIZE - 1>>, <<5, 2 * CUTTER_SIZE - 1>>),
         PickleRow(2, 2, "N", 2 * CUTTER_SIZE + 1, <<9, 2 * CUTTER_SIZE + 1>>, <<6, 2 * CUTTER_SIZE + 1>>, <<7, 2 * CUTTER_SIZE + 1>>),
         PickleRow(2, 1, "H", 0, NaN, NaN, NaN) >>,
      << PickleRow(1, 2, "H", 2 * CUTTER_SIZE + 1, <<8, 2 * CUTTER_SIZE + 1>>, <<4, 2 * CUTTER_SIZE + 1>>, <<9, 2 * CUTTER_SIZE + 1>>) >> }

(***************************************************************************)
(* State.  The names are those of the notebook; pc is the statement the    *)
(* kernel executes next and smp_i the position of the loop in smp_data.    *)
(* pickle is the content of ./output/smp_pit_comparison.pkl.               *)
(* seed is the seed of numpy's global generator in this kernel session,    *)
(* stream[s] the part of the generator's output for seed s drawn so far,   *)
(* drawn the number of draws this session has consumed; session counts the *)
(* kernel sessions and first keeps what the first session produced.        *)
(* retries and last_draw are the locals of random_stretch: the rejected    *)
(* draws of the call in progress and its latest draw.                      *)
(***************************************************************************)
VARIABLES skip_alignment, paper_conditions, smp_data, pc, smp_i,
          pit_df, density_df, smp_df, num_sections,
          random_tests, retries, last_draw, scaled_profiles, compare_profiles,
          retrieved_skill, min_scaling_idx, min_scaling_coeff,
          comparison_df, pickle, result,
          seed, stream, drawn, session, first,
          call

config == <<skip_alignment, paper_conditions, smp_data>>

locals == <<pit_df, density_df, smp_df, num_sections, random_tests, retries,
            last_draw, scaled_profiles, compare_profiles, retrieved_skill, min_scaling_idx>>

outputs == <<min_scaling_coeff, comparison_df, pickle, result>>

rng == <<seed, stream, drawn>>

vars == <<config, pc, smp_i, locals, outputs, rng, session, first, call>>

EntropySeeds == (PAPER_SEED + 1)..(PAPER_SEED + 2)

AllSeeds == {PAPER_SEED} \cup EntropySeeds

\* a first cell that never seeds the generator
SeedFromEntropy(paper, entropy) == entropy

\* the seed of the generator after the first cell: np.random.seed(2019)
\* under paper_conditions, the entropy of the operating system otherwise
SeedAfterSetup(paper, entropy) == IF paper THEN PAPER_SEED ELSE entropy

NoLocals ==
    /\ pit_df = << >>
    /\ density_df = << >>
    /\ smp_df = << >>
    /\ num_sections = 0
    /\ random_tests = << >>
    /\ retries = 0
    /\ last_draw = << >>
    /\ scaled_profiles = << >>
    /\ compare_profiles = << >>
    /\ retrieved_skill = << >>
    /\ min_scaling_idx = -1

\* the pickle of a former alignment is on disk where skip_alignment asks
\* for it; an alignment run starts with none and writes its own
NoCall == [fn |-> "none"]

InitCommon ==
    /\ call = NoCall
    /\ pc = "cell"
    /\ smp_i = 1
    /\ NoLocals
    /\ min_scaling_coeff = << >>
    /\ comparison_df = << >>
    /\ pickle \in (IF skip_alignment THEN PickleTables ELSE {<< >>})
    /\ result = << >>
    /\ \E e \in EntropySeeds : seed = SeedAfterSetup(paper_conditions, e)
    /\ stream = [s \in AllSeeds |-> << >>]
    /\ drawn = 0
    /\ first = << >>

\* one run of the notebook, seeded as it is committed (paper_conditions =
\* True), with skip_alignment as the user sets it
Init ==
    /\ skip_alignment \in BOOLEAN
    /\ paper_conditions = TRUE
    /\ session = 0
    /\ smp_data \in Batches
    /\ InitCommon


(***************************************************************************)
(* The alignment cell.                                                     *)
(***************************************************************************)
\* else-branch: pd.read_pickle
LoadResults ==
    /\ pc = "cell"
    /\ skip_alignment
    /\ comparison_df' = pickle
    /\ pc' = "filter"
    /\ UNCHANGED <<config, call, smp_i, locals, min_scaling_coeff, pickle, result, rng, session, first>>

EnterLoop ==
    /\ pc = "cell"
    /\ ~skip_alignment
    /\ pc' = "smp"
    /\ UNCHANGED <<config, call, smp_i, locals, outputs, rng, session, first>>

\* for smp in smp_data: the matching pit and its density measurements.
\* The locals of the previous iteration are dead here (each is assigned
\* again before it is read); the model drops them.
MatchPit ==
    /\ pc = "smp"
    /\ smp_i <= Len(smp_data)
    /\ LET smp == Profiles[smp_data[smp_i]]
           pits == MatchingPits(smp.name)
       IN  /\ pits # << >>
           /\ pit_df' = pits
           /\ density_df' = DensityDf(pits[1].ID)
    /\ smp_df' = << >>
    /\ num_sections' = 0
    /\ random_tests' = << >>
    /\ retries' = 0
    /\ last_draw' = << >>
    /\ scaled_profiles' = << >>
    /\ compare_profiles' = << >>
    /\ retrieved_skill' = << >>
    /\ min_scaling_idx' = -1
    /\ pc' = "resample"
    /\ UNCHANGED <<config, call, smp_i, outputs, rng, session, first>>

\* pit_df is empty: pit_df['ID'].values[0] raises IndexError, nothing
\* catches it and the cell stops
MissingPit ==
    /\ pc = "smp"
    /\ smp_i <= Len(smp_data)
    /\ MatchingPits(Profiles[smp_data[smp_i]].name) = << >>
    /\ pit_df' = << >>
    /\ pc' = "aborted"
    /\ UNCHANGED <<config, call, smp_i, density_df, smp_df, num_sections, random_tests, retries,
                   last_draw, scaled_profiles, compare_profiles, retrieved_skill,
                   min_scaling_idx, outputs, rng, session, first>>

Resample ==
    /\ pc = "resample"
    /\ smp_df' = ResampledProfile(Profiles[smp_data[smp_i]], pit_df[1])
    /\ num_sections' = NumSections(smp_df')
    /\ pc' = "random_tests"
    /\ UNCHANGED <<config, call, smp_i, pit_df, density_df, random_tests, retries, last_draw,
                   scaled_profiles, compare_profiles, retrieved_skill, min_scaling_idx,
                   outputs, rng, session, first>>

\* a generator that discards a draw at the limit as well
ReturnedBelowLimit(draw, overall) ==
    IF Abs(StretchSum(draw)) < overall * Len(draw) THEN <<draw>> ELSE << >>

\* what random_stretch does with one draw: <<plan>> is returned, << >>
\* means the draw is discarded and another one made
Returned(draw, overall) == IF WithinOverall(draw, overall) THEN <<draw>> ELSE << >>

\* stream[s] is what the generator seeded with s returns, call after call
\* of random_stretch, as far as a run has revealed it; drawn counts the
\* calls that have returned since the seeding.  A generator is a fixed
\* function of its seed: a call a former run has revealed returns the same
\* plan again.  The stream is kept only where two runs are compared
\* (session > 0).
Revealed == session > 0 /\ drawn < Len(stream[seed])

RandomStretchDraw(draw) ==
    /\ last_draw' = draw
    /\ LET out == Returned(draw, MAX_STRETCH_OVERALL)
       IN  IF out # << >>
           THEN /\ Revealed => out[1] = stream[seed][drawn + 1]
                /\ random_tests' = Append(random_tests, out[1])
                /\ retries' = 0
                /\ drawn' = drawn + 1
                /\ stream' = IF session > 0 /\ ~Revealed
                             THEN [stream EXCEPT ![seed] = Append(@, out[1])]
                             ELSE stream
           ELSE /\ random_tests' = random_tests
                /\ retries' = IF retries < MaxRetries THEN retries + 1 ELSE retries
                /\ UNCHANGED <<stream, drawn>>

\* one draw of one call of the list comprehension over np.repeat(num_sections, NUM_TESTS)
RandomStretch ==
    /\ pc = "random_tests"
    /\ Len(random_tests) < NUM_TESTS
    /\ \E draw \in Draws(num_sections) : RandomStretchDraw(draw)
    /\ UNCHANGED <<config, call, pc, smp_i, pit_df, density_df, smp_df, num_sections,
                   scaled_profiles, compare_profiles, retrieved_skill, min_scaling_idx,
                   outputs, seed, session, first>>

\* a search that goes on with the candidates it has when one is still to come
ScaleProfilesEarly ==
    /\ pc = "random_tests"
    /\ Len(random_tests) >= NUM_TESTS - 1
    /\ scaled_profiles' =
          [t \in DOMAIN random_tests |->
              scale_profile(random_tests[t], smp_df.distance, smp_df.density,
                            L_RESAMPLE, H_RESAMPLE)]
    /\ pc' = "compare_profiles"
    /\ UNCHANGED <<config, call, smp_i, pit_df, density_df, smp_df, num_sections, random_tests,
                   retries, last_draw, compare_profiles, retrieved_skill, min_scaling_idx,
                   outputs, rng, session, first>>

ScaleProfiles ==
    /\ pc = "random_tests"
    /\ Len(random_tests) = NUM_TESTS
    /\ scaled_profiles' =
          [t \in DOMAIN random_tests |->
              scale_profile(random_tests[t], smp_df.distance, smp_df.density,
                            L_RESAMPLE, H_RESAMPLE)]
    /\ pc' = "compare_profiles"
    /\ UNCHANGED <<config, call, smp_i, pit_df, density_df, smp_df, num_sections, random_tests,
                   retries, last_draw, compare_profiles, retrieved_skill, min_scaling_idx,
                   outputs, rng, session, first>>

ExtractSamples ==
    /\ pc = "compare_profiles"
    /\ compare_profiles' =
          [t \in DOMAIN scaled_profiles |->
              ConcatRows(extract_samples(scaled_profiles[t][1], scaled_profiles[t][2],
                                         RelativeHeights(density_df), CUTTER_SIZE),
                         density_df)]
    /\ pc' = "retrieved_skill"
    /\ UNCHANGED <<config, call, smp_i, pit_df, density_df, smp_df, num_sections, random_tests,
                   retries, last_draw, scaled_profiles, retrieved_skill, min_scaling_idx,
                   outputs, rng, session, first>>

CalcSkill ==
    /\ pc = "retrieved_skill"
    /\ retrieved_skill' =
          [t \in DOMAIN compare_profiles |-> calc_skill(compare_profiles[t], CUTTER_SIZE)]
    /\ pc' = "min_scaling_idx"
    /\ UNCHANGED <<config, call, smp_i, pit_df, density_df, smp_df, num_sections, random_tests,
                   retries, last_draw, scaled_profiles, compare_profiles, min_scaling_idx,
                   outputs, rng, session, first>>

SelectBest ==
    /\ pc = "min_scaling_idx"
    /\ min_scaling_idx' = HeadIndex(retrieved_skill)
    /\ min_scaling_coeff' = Append(min_scaling_coeff, random_tests[min_scaling_idx' + 1])
    /\ pc' = "result"
    /\ UNCHANGED <<config, call, smp_i, pit_df, density_df, smp_df, num_sections, random_tests,
                   retries, last_draw, scaled_profiles, compare_profiles, retrieved_skill,
                   comparison_df, pickle, result, rng, session, first>>

\* a loop that writes the table to the file after each profile
ApplyBestAndSave ==
    /\ pc = "result"
    /\ comparison_df' =
          comparison_df \o BestRows(compare_profiles[min_scaling_idx + 1],
                                    min_scaling_coeff[Len(min_scaling_coeff)],
                                    smp_df, density_df)
    /\ pickle' = comparison_df'
    /\ smp_i' = smp_i + 1
    /\ pc' = "smp"
    /\ UNCHANGED <<config, call, locals, min_scaling_coeff, result, rng, session, first>>

ApplyBest ==
    /\ pc = "result"
    /\ comparison_df' =
          comparison_df \o BestRows(compare_profiles[min_scaling_idx + 1],
                                    min_scaling_coeff[Len(min_scaling_coeff)],
                                    smp_df, density_df)
    /\ smp_i' = smp_i + 1
    /\ pc' = "smp"
    /\ UNCHANGED <<config, call, locals, min_scaling_coeff, pickle, result, rng, session, first>>

\* after the loop: the summary of the scaling and comparison_df.to_pickle
SaveResults ==
    /\ pc = "smp"
    /\ smp_i > Len(smp_data)
    /\ pickle' = comparison_df
    /\ pc' = "filter"
    /\ UNCHANGED <<config, call, smp_i, locals, min_scaling_coeff, comparison_df, result, rng,
                   session, first>>

\* the filtering cell
FilterResults ==
    /\ pc = "filter"
    /\ result' = FilteredResult(comparison_df)
    /\ pc' = "done"
    /\ UNCHANGED <<config, call, smp_i, locals, min_scaling_coeff, comparison_df, pickle, rng,
                   session, first>>

Next ==
    \/ LoadResults
    \/ EnterLoop
    \/ MatchPit
    \/ MissingPit
    \/ Resample
    \/ RandomStretch
    \/ ScaleProfiles
    \/ ExtractSamples
    \/ CalcSkill
    \/ SelectBest
    \/ ApplyBest
    \/ SaveResults
    \/ FilterResults

Spec == Init /\ [][Next]_vars

\* the kernel keeps running the cell: a step that can be taken is taken
FairSpec == Spec /\ WF_vars(Next)

(***************************************************************************)
(* Two runs of the notebook, one after the other, on the same input: the   *)
(* kernel is restarted when the first run is over, every cell runs again   *)
(* and the generator is seeded again by the first cell.  The files on disk *)
(* are what the first run left.  first keeps what the first run computed.  *)
(***************************************************************************)
RunBatches == {<<i>> : i \in DOMAIN Profiles}

InitRuns ==
    /\ skip_alignment \in BOOLEAN
    /\ paper_conditions = TRUE
    /\ session = 1
    /\ InitCommon
    /\ smp_data \in RunBatches

Restart ==
    /\ session = 1
    /\ pc = "done"
    /\ first' = [seed |-> seed, random_tests |-> random_tests,
                 retrieved_skill |-> retrieved_skill, min_scaling_idx |-> min_scaling_idx,
                 min_scaling_coeff |-> min_scaling_coeff, comparison_df |-> comparison_df,
                 result |-> result]
    /\ session' = 2
    /\ \E e \in EntropySeeds : seed' = SeedAfterSetup(paper_conditions, e)
    /\ drawn' = 0
    /\ pc' = "cell"
    /\ smp_i' = 1
    /\ pit_df' = << >>
    /\ density_df' = << >>
    /\ smp_df' = << >>
    /\ num_sections' = 0
    /\ random_tests' = << >>
    /\ retries' = 0
    /\ last_draw' = << >>
    /\ scaled_profiles' = << >>
    /\ compare_profiles' = << >>
    /\ retrieved_skill' = << >>
    /\ min_scaling_idx' = -1
    /\ min_scaling_coeff' = << >>
    /\ comparison_df' = << >>
    /\ result' = << >>
    /\ UNCHANGED <<config, call, pickle, stream>>

NextRuns ==
    \/ Next
    \/ Restart

SpecRuns == InitRuns /\ [][NextRuns]_vars

(***************************************************************************)
(* classify_profile(profile, classifier): the classifier's predictions     *)
(* 'R', 'F', 'H' become layer_type 1, 2, 3; layer_type is then replaced by  *)
(* rolling(window=3, min_periods=1).apply(mode): at each sample the most    *)
(* frequent value among that sample and the window - 1 samples before it    *)
(* (fewer at the start of the profile), the smallest of the most frequent   *)
(* ones when there is a tie (scipy.stats.mode); layer_label is the letter   *)
(* of the smoothed layer_type.  The profile is a loewe2012 series, one      *)
(* sample each bin_height (in 1/10 mm).                                     *)
(***************************************************************************)
RollingWindow == 3

bin_height == 25

LayerLabels == {"R", "F", "H"}

LayerType(label) == CASE label = "R" -> 1 [] label = "F" -> 2 [] label = "H" -> 3

LayerLabel(type) == CASE type = 1 -> "R" [] type = 2 -> "F" [] type = 3 -> "H"

Occurrences(w, v) == Cardinality({i \in DOMAIN w : w[i] = v})

mode(w) ==
    CHOOSE v \in {w[i] : i \in DOMAIN w} :
        \A u \in {w[i] : i \in DOMAIN w} :
            \/ Occurrences(w, v) > Occurrences(w, u)
            \/ Occurrences(w, v) = Occurrences(w, u) /\ v <= u

rolling(s, window) ==
    [i \in DOMAIN s |-> SubSeq(s, IF i - window + 1 < 1 THEN 1 ELSE i - window + 1, i)]

classify_profile(profile_prediction) ==
    LET raw == [i \in DOMAIN profile_prediction |-> LayerType(profile_prediction[i])]
        windows == rolling(raw, RollingWindow)
        layer_type == [i \in DOMAIN raw |-> mode(windows[i])]
    IN  [layer_type |-> layer_type,
         layer_label |-> [i \in DOMAIN raw |-> LayerLabel(layer_type[i])]]

(***************************************************************************)
(* The layer classifier.  np.log in 1/100 over the force values of the     *)
(* model.  The training table is the filtered result with a force_log      *)
(* column added; svm_dat takes the columns named in regression_vars, X is  *)
(* svm_dat without TYPE and y its TYPE.  A fitted classifier is held as    *)
(* the two cuts it puts on the third feature of a vector: below cut1 'R',  *)
(* below cut2 'F', 'H' from there on.                                      *)
(***************************************************************************)
ForceValues == {1, 2, 4}

log(f) == CASE f = 1 -> 0 [] f = 2 -> 69 [] f = 3 -> 110 [] f = 4 -> 139 [] f = 5 -> 161

AssignForceLog(filtered) ==
    [i \in DOMAIN filtered |->
        [relative_height |-> filtered[i].relative_height, l |-> filtered[i].l,
         force_median |-> filtered[i].force_median, TYPE |-> filtered[i].TYPE,
         force_log |-> log(filtered[i].force_median)]]

regression_vars == <<"relative_height", "l", "force_median", "TYPE">>

FeatureColumns(columns) == SelectSeq(columns, LAMBDA c : c # "TYPE")

svm_dat(filtered) ==
    LET table == AssignForceLog(filtered)
        columns == FeatureColumns(regression_vars)
    IN  [X |-> [i \in DOMAIN table |-> [k \in DOMAIN columns |-> table[i][columns[k]]]],
         y |-> [i \in DOMAIN table |-> table[i].TYPE]]

\* the frame built from a loewe2012 series: relative_height, l, force_median
sn_df(sn) ==
    [i \in DOMAIN sn.distance |-> <<sn.distance[i], sn.L2012_L[i], sn.force_median[i]>>]

Classifiers == {[cut1 |-> 2, cut2 |-> 3], [cut1 |-> 2, cut2 |-> 5], [cut1 |-> 3, cut2 |-> 5]}

predict(classifier, X) ==
    [i \in DOMAIN X |->
        IF X[i][3] < classifier.cut1 THEN "R"
        ELSE IF X[i][3] < classifier.cut2 THEN "F" ELSE "H"]

(***************************************************************************)
(* process_site(directory, classifier, coeffs): every profile of the site  *)
(* is classified by classify_profile(sn_df, svclassifier), svclassifier    *)
(* being the variable of the notebook, and its density (in 1/100) is       *)
(* coeffs[0] + coeffs[1] log(f) + coeffs[2] log(f) l + coeffs[3] l.        *)
(***************************************************************************)
process_site(directory, classifier, coeffs, svclassifier) ==
    [p \in DOMAIN directory |->
        LET frame == sn_df(directory[p])
            classified == classify_profile(predict(svclassifier, frame))
        IN  [features |-> frame,
             layer_type |-> classified.layer_type,
             layer_label |-> classified.layer_label,
             density |-> [i \in DOMAIN frame |->
                             100 * coeffs[1] + coeffs[2] * log(frame[i][3])
                             + coeffs[3] * log(frame[i][3]) * frame[i][2]
                             + 100 * coeffs[4] * frame[i][2]]]]

(***************************************************************************)
(* The application notebook: the radar propagation bias of each profile.   *)
(* SlowDown(rho) is C / c_in_snow(rho) = (1 + 0.51 rho / 1000)^1.5 in      *)
(* 1/1000 for the densities of the model (kg m-3).  Heights are in 1/10    *)
(* mm, so a bias is in 1/10 mm / 1000.  The loop fills the lists           *)
(* delta_h_static, delta_h_w99 and delta_h_smp; the next cell writes them  *)
(* to the columns of summary_df.                                           *)
(***************************************************************************)
static_density == 300

SnowDensities == {200, 300, 400}

SlowDown(rho) == CASE rho = 200 -> 1157 [] rho = 300 -> 1238 [] rho = 400 -> 1321

BiasLists(profiles) ==
    [p \in DOMAIN profiles |->
        LET profile_heights == profiles[p].relative_height
            profile_density == profiles[p].density
            profile_thickness == SeqMax(profile_heights)
        IN  [delta_h_w99 |-> profile_thickness * (SlowDown(profiles[p].w99_rho) - 1000),
             delta_h_static |-> profile_thickness * (SlowDown(static_density) - 1000),
             delta_h_smp |-> SeqSum([i \in DOMAIN profile_heights |->
                                        bin_height * (SlowDown(profile_density[i]) - 1000)]),
             w99_rho |-> profiles[p].w99_rho]]

Summarise(profiles) ==
    LET lists == BiasLists(profiles)
    IN  [p \in DOMAIN profiles |->
            LET delta_h_smp == lists[p].delta_h_smp
                delta_h_static == lists[p].delta_h_static
                delta_h_w99 == lists[p].delta_h_static
            IN  [delta_h_smp |-> delta_h_smp,
                 delta_h_static |-> delta_h_static,
                 delta_h_w99 |-> delta_h_w99,
                 delta_h_error |-> delta_h_smp - delta_h_w99,
                 w99_rho |-> lists[p].w99_rho,
                 delta_h_error_static |-> delta_h_smp - delta_h_static]]

(***************************************************************************)
(* The functions the cells call, each called on its own with arguments     *)
(* drawn from bounded sets: call holds the function, its arguments and,    *)
(* once it has returned (done), what it returned (out).  The notebook      *)
(* itself stands still.                                                    *)
(***************************************************************************)
notebook == <<config, pc, smp_i, locals, outputs, rng, session, first>>

\* lengths (in samples) of the resampled profiles scaled: one and two
\* sections, the last section partial or full
CallLengths == {L_RESAMPLE - 1, L_RESAMPLE + 1, 2 * L_RESAMPLE - 1, 2 * L_RESAMPLE}

\* the deviations of Deviations and the largest deviation of one section
\* the generator accepts beside a section at the layer limit
CallDeviations ==
    Deviations \cup {2 * MAX_STRETCH_OVERALL - MAX_STRETCH_LAYER,
                     MAX_STRETCH_LAYER - 2 * MAX_STRETCH_OVERALL}

\* the plans random_stretch returns for x sections
CallPlans(x) ==
    {p \in [1..x -> {100 + d : d \in CallDeviations}] :
        Returned(p, MAX_STRETCH_OVERALL) # << >>}

ScaleProfileCalls ==
    UNION {{[fn |-> "scale_profile", plan |-> p,
             distance |-> Arange(n * H_RESAMPLE, H_RESAMPLE),
             values |-> [i \in 1..n |-> i % 3],
             done |-> FALSE, out |-> << >>] : p \in CallPlans(Ceil(n, L_RESAMPLE))} :
           n \in CallLengths}

\* orders the points of a profile can be given in: as they are, reversed,
\* rotated by one, odd places before even ones
Orders(n) ==
    { [i \in 1..n |-> i], [i \in 1..n |-> n + 1 - i], [i \in 1..n |-> (i % n) + 1],
      [i \in 1..n |-> IF 2 * i - 1 <= n THEN 2 * i - 1 ELSE 2 * (i - (n + 1) \div 2)] }

Reordered(s, order) == [i \in DOMAIN s |-> s[order[i]]]

\* the windows of a pit with measurements every cm: relative heights
\* CUTTER_SIZE, CUTTER_SIZE + 10, ...
WindowCenters == <<CUTTER_SIZE, CUTTER_SIZE + 10, CUTTER_SIZE + 20>>

\* the scaled profiles of ScaleProfileCalls, their points in some order
ExtractSamplesCalls ==
    UNION {{[fn |-> "extract_samples",
             dist |-> scale_profile(c.plan, c.distance, c.values, L_RESAMPLE, H_RESAMPLE)[1],
             values |-> c.values, order |-> o, centers |-> WindowCenters,
             done |-> FALSE, out |-> << >>] : o \in Orders(Len(c.distance))} :
           c \in ScaleProfileCalls}

\* rows of a compared profile: a window with no point, an under-sampled
\* one whose mean is off the pit density, a full one whose mean is the pit
\* density, a full one whose mean is off it
CompareRows ==
    UNION {{ [count_samp |-> 0, mean_samp |-> NaN, RHO |-> rho],
             [count_samp |-> 2 * CUTTER_SIZE - 1,
              mean_samp |-> <<(rho + 1) * (2 * CUTTER_SIZE - 1), 2 * CUTTER_SIZE - 1>>, RHO |-> rho],
             [count_samp |-> 2 * CUTTER_SIZE,
              mean_samp |-> <<rho * 2 * CUTTER_SIZE, 2 * CUTTER_SIZE>>, RHO |-> rho],
             [count_samp |-> 2 * CUTTER_SIZE,
              mean_samp |-> <<rho * 2 * CUTTER_SIZE + 1, 2 * CUTTER_SIZE>>, RHO |-> rho] } :
           rho \in 1..3}

MaxWindows == 3

CalcSkillCalls ==
    UNION {{[fn |-> "calc_skill", profile |-> p, done |-> FALSE, out |-> << >>] :
            p \in [1..n -> CompareRows]} : n \in 1..MaxWindows}

\* what the classifier can predict for a profile: any labels for a short
\* profile, and one label all along but at one sample for a profile of
\* Surrounding + 1 samples
MaxSamples == 8

Surrounding == 10

Predictions ==
    UNION {[1..n -> LayerLabels] : n \in 1..MaxSamples}
    \cup {[i \in 1..(Surrounding + 1) |-> IF i = p THEN b ELSE a] :
             p \in 1..(Surrounding + 1), a \in LayerLabels, b \in LayerLabels}

ClassifyProfileCalls ==
    {[fn |-> "classify_profile", profile_prediction |-> q, done |-> FALSE, out |-> << >>] :
        q \in Predictions}

\* the series of a raw profile of SiteSamples samples, one each bin_height
SiteSamples == 3

Series ==
    {[distance |-> [i \in 1..SiteSamples |-> (i - 1) * bin_height],
      L2012_L |-> [i \in 1..SiteSamples |-> 1 + (i % 2)],
      force_median |-> f] : f \in [1..SiteSamples -> ForceValues]}

\* the sites: one or two profiles
Sites == {<<a>> : a \in Series} \cup {<<a, b>> : a, b \in {s \in Series : s.force_median[1] = 1}}

density_coeffs == <<3, 1, 0, 2>>

ProcessSiteCalls ==
    {[fn |-> "process_site", directory |-> d, classifier |-> c, coeffs |-> density_coeffs,
      svclassifier |-> g, done |-> FALSE, out |-> << >>] :
        d \in Sites, c \in Classifiers, g \in Classifiers}

\* the filtered results the classifier is trained on
TrainingRows ==
    {[relative_height |-> CUTTER_SIZE, l |-> 1 + (f % 2), force_median |-> f, TYPE |-> t] :
        f \in ForceValues, t \in LayerLabels}

SvmDatCalls ==
    {[fn |-> "svm_dat", result |-> r, done |-> FALSE, out |-> << >>] :
        r \in [1..2 -> TrainingRows]}

\* the Magnaprobe thickness can fall short of the penetration of the probe
\* or exceed it by up to MaxExcess mm
MaxExcess == 3

ResampleCalls ==
    UNION {{[fn |-> "resample", profile |-> Profiles[i], pit |-> [MPD |-> t],
             done |-> FALSE, out |-> << >>] :
            t \in 1..(SeqMax(Profiles[i].distance) + MaxExcess)} : i \in DOMAIN Profiles}

\* resample steps (mm) and target depths the candidates are generated for
Steps == {1, 2}

RandomTestsCalls ==
    {[fn |-> "random_tests", h |-> h, depth_array |-> Arange(t, h),
      done |-> FALSE, out |-> << >>] :
        h \in Steps, t \in {L_RESAMPLE - 1, L_RESAMPLE + 1, 2 * L_RESAMPLE}}

\* the profiles of the application: two bins each, the climatology
\* density of their location beside them
BinsPerProfile == 2

SiteProfiles ==
    {[relative_height |-> [i \in 1..BinsPerProfile |-> i * bin_height],
      density |-> d, w99_rho |-> w] :
        d \in [1..BinsPerProfile -> SnowDensities], w \in SnowDensities}

SummaryCalls ==
    {[fn |-> "summary_df", profiles |-> s, done |-> FALSE, out |-> << >>] :
        s \in {<<a>> : a \in SiteProfiles}
              \cup {<<a, b>> : a, b \in {q \in SiteProfiles :
                                           \A i \in DOMAIN q.density : q.density[i] = static_density}}}

\* the density measurements of a pit: up to MaxWindows of them, their tops
\* (cm) in any order, at any place of the pit_density table
MaxTop == 3

PitRows ==
    UNION {{[k \in 1..n |-> [index |-> first_index + k - 1, ID |-> 1, TOP |-> tops[k],
                             RHO |-> k, TYPE |-> "F"]] :
            tops \in [1..n -> 0..MaxTop], first_index \in {0, 2}} : n \in 1..MaxWindows}

DensityDfCalls ==
    {[fn |-> "density_df", rows |-> r, done |-> FALSE, out |-> << >>] : r \in PitRows}

Calls ==
    DensityDfCalls \cup SummaryCalls \cup RandomTestsCalls \cup ResampleCalls \cup ScaleProfileCalls \cup ExtractSamplesCalls \cup CalcSkillCalls \cup ClassifyProfileCalls
    \cup ProcessSiteCalls \cup SvmDatCalls

InitCalls ==
    /\ skip_alignment = TRUE
    /\ paper_conditions = TRUE
    /\ smp_data = << >>
    /\ pc = "call"
    /\ smp_i = 1
    /\ NoLocals
    /\ min_scaling_coeff = << >>
    /\ comparison_df = << >>
    /\ pickle = << >>
    /\ result = << >>
    /\ seed = PAPER_SEED
    /\ stream = [s \in AllSeeds |-> << >>]
    /\ drawn = 0
    /\ session = 0
    /\ first = << >>
    /\ call \in Calls

CallScaleProfile ==
    /\ call.fn = "scale_profile"
    /\ ~call.done
    /\ call' = [call EXCEPT !.done = TRUE,
                            !.out = scale_profile(call.plan, call.distance, call.values,
                                                  L_RESAMPLE, H_RESAMPLE)]
    /\ UNCHANGED notebook

CallExtractSamples ==
    /\ call.fn = "extract_samples"
    /\ ~call.done
    /\ call' = [call EXCEPT !.done = TRUE,
                            !.out = extract_samples(Reordered(call.dist, call.order),
                                                    Reordered(call.values, call.order),
                                                    call.centers, CUTTER_SIZE)]
    /\ UNCHANGED notebook

CallCalcSkill ==
    /\ call.fn = "calc_skill"
    /\ ~call.done
    /\ call' = [call EXCEPT !.done = TRUE, !.out = calc_skill(call.profile, CUTTER_SIZE)]
    /\ UNCHANGED notebook

CallClassifyProfile ==
    /\ call.fn = "classify_profile"
    /\ ~call.done
    /\ call' = [call EXCEPT !.done = TRUE, !.out = classify_profile(call.profile_prediction)]
    /\ UNCHANGED notebook

CallProcessSite ==
    /\ call.fn = "process_site"
    /\ ~call.done
    /\ call' = [call EXCEPT !.done = TRUE,
                            !.out = process_site(call.directory, call.classifier, call.coeffs,
                                                 call.svclassifier)]
    /\ UNCHANGED notebook

CallSvmDat ==
    /\ call.fn = "svm_dat"
    /\ ~call.done
    /\ call' = [call EXCEPT !.done = TRUE, !.out = svm_dat(call.result)]
    /\ UNCHANGED notebook

CallResample ==
    /\ call.fn = "resample"
    /\ ~call.done
    /\ call' = [call EXCEPT !.done = TRUE, !.out = ResampledProfile(call.profile, call.pit)]
    /\ UNCHANGED notebook

\* num_sections and the NUM_TESTS plans random_stretch returns for it
CallRandomTests ==
    /\ call.fn = "random_tests"
    /\ ~call.done
    /\ LET sections == NumSections([distance |-> call.depth_array])
       IN  \E tests \in [1..NUM_TESTS ->
                           {d \in Draws(sections) : Returned(d, MAX_STRETCH_OVERALL) # << >>}] :
               call' = [call EXCEPT !.done = TRUE,
                                    !.out = [num_sections |-> sections, random_tests |-> tests]]
    /\ UNCHANGED notebook

CallSummary ==
    /\ call.fn = "summary_df"
    /\ ~call.done
    /\ call' = [call EXCEPT !.done = TRUE, !.out = Summarise(call.profiles)]
    /\ UNCHANGED notebook

CallDensityDf ==
    /\ call.fn = "density_df"
    /\ ~call.done
    /\ call' = [call EXCEPT !.done = TRUE, !.out = AssignRelativeHeight(call.rows)]
    /\ UNCHANGED notebook

NextCalls ==
    \/ CallDensityDf
    \/ CallSummary
    \/ CallRandomTests
    \/ CallResample
    \/ CallProcessSite
    \/ CallSvmDat
    \/ CallScaleProfile
    \/ CallExtractSamples
    \/ CallCalcSkill
    \/ CallClassifyProfile

SpecCalls == InitCalls /\ [][NextCalls]_vars


(***************************************************************************)
(* Properties.                                                             *)
(***************************************************************************)
Last(q) == q[Len(q)]

\* the length of the resampled profile the candidates are generated for
ProfileLength == Len(smp_df.distance) * H_RESAMPLE

WithinLayer(plan) ==
    \A k \in DOMAIN plan :
        100 - MAX_STRETCH_LAYER <= plan[k] /\ plan[k] <= 100 + MAX_STRETCH_LAYER

\* C1: every plan the generator hands to the search has each factor within
\* [1 - maxLayerStretch, 1 + maxLayerStretch] and an absolute net stretch
\* (sum of (factor - 1) * segment_size) / total_length of the profile of at
\* most maxOverallStretch.
C1_PlansWithinBothBounds ==
    \A t \in DOMAIN random_tests :
        /\ WithinLayer(random_tests[t])
        /\ Abs(StretchSum(random_tests[t])) * L_RESAMPLE <= MAX_STRETCH_OVERALL * ProfileLength

\* C2: a draw whose net stretch is at most the overall limit, the limit
\* itself included, is returned as drawn; a draw beyond the limit is
\* discarded and the call draws again, nothing being returned in its place.
C2_BoundaryAcceptedExcessRedrawn ==
    last_draw # << >> =>
        IF Abs(StretchSum(last_draw)) <= MAX_STRETCH_OVERALL * Len(last_draw)
        THEN retries = 0 /\ random_tests # << >> /\ Last(random_tests) = last_draw
        ELSE retries > 0 /\ Len(random_tests) < NUM_TESTS

\* a draw exactly at the limit has been returned
C2_Witness ==
    /\ last_draw # << >>
    /\ Abs(StretchSum(last_draw)) = MAX_STRETCH_OVERALL * Len(last_draw)
    /\ random_tests # << >>
    /\ Last(random_tests) = last_draw

Selected == pc = "result"

\* a correlation strictly higher than another (a defined one is higher than NaN)
HigherR(r1, r2) == ~IsNaNr(r1) /\ (IsNaNr(r2) \/ RGreater(r1, r2))

SameR(r1, r2) == ~IsNaNr(r1) /\ ~IsNaNr(r2) /\ ~RGreater(r1, r2) /\ ~RGreater(r2, r1)

LowerErr(e1, e2) == ~IsNaN(e1) /\ ~IsNaN(e2) /\ RatLess(e1, e2)

\* C3: the plan appended to min_scaling_coeff is the candidate at the
\* selected index, no candidate has a strictly higher r, and none has an
\* equal r with a strictly lower rmse_corr.
C3_BestIsTopRanked ==
    Selected =>
        LET b == min_scaling_idx + 1
        IN  /\ b \in DOMAIN random_tests
            /\ Last(min_scaling_coeff) = random_tests[b]
            /\ \A j \in DOMAIN retrieved_skill :
                  /\ ~HigherR(retrieved_skill[j].r, retrieved_skill[b].r)
                  /\ ~(/\ SameR(retrieved_skill[j].r, retrieved_skill[b].r)
                       /\ LowerErr(retrieved_skill[j].rmse_corr, retrieved_skill[b].rmse_corr))

\* the selected candidate is not the first one and beats the first one on
\* the tie-break: same r, lower rmse_corr
C3_Witness ==
    /\ Selected
    /\ min_scaling_idx > 0
    /\ SameR(retrieved_skill[1].r, retrieved_skill[min_scaling_idx + 1].r)
    /\ LowerErr(retrieved_skill[min_scaling_idx + 1].rmse_corr, retrieved_skill[1].rmse_corr)

\* C5: a best plan is recorded for a profile only when every one of its
\* NUM_TESTS candidates has been generated, scaled, sampled and scored.
C5_SelectionAfterAllEvaluated ==
    /\ Selected =>
          /\ Len(random_tests) = NUM_TESTS
          /\ Len(scaled_profiles) = NUM_TESTS
          /\ Len(compare_profiles) = NUM_TESTS
          /\ Len(retrieved_skill) = NUM_TESTS
    /\ pc \in {"resample", "random_tests", "compare_profiles", "retrieved_skill",
               "min_scaling_idx"} =>
          /\ min_scaling_idx = -1
          /\ Len(min_scaling_coeff) = smp_i - 1

C5_Witness == Selected /\ Len(retrieved_skill) = NUM_TESTS /\ Len(min_scaling_coeff) = smp_i

\* C4: with the seed fixed by paper_conditions, a second run over the same
\* profile and the same pit has the seed of the first run, generates the
\* same candidates, scores them the same, selects the same plan and adds
\* the same rows.
C4_RunsAgree ==
    (session = 2 /\ pc = "done" /\ paper_conditions) =>
        /\ seed = first.seed
        /\ random_tests = first.random_tests
        /\ retrieved_skill = first.retrieved_skill
        /\ min_scaling_idx = first.min_scaling_idx
        /\ min_scaling_coeff = first.min_scaling_coeff
        /\ comparison_df = first.comparison_df

\* a second run has aligned a profile whose candidates differ and whose
\* best candidate is not the first one
C4_Witness ==
    /\ session = 2
    /\ pc = "done"
    /\ paper_conditions
    /\ ~skip_alignment
    /\ Len(random_tests) = NUM_TESTS
    /\ random_tests[1] # random_tests[2]
    /\ min_scaling_idx > 0
    /\ min_scaling_coeff # << >>


HasPit(i) == MatchingPits(Profiles[smp_data[i]].name) # << >>

PitOf(i) == MatchingPits(Profiles[smp_data[i]].name)[1]

\* the rows the profiles before the i-th one have added
RowsBefore(i) == SeqSum([j \in 1..(i - 1) |-> Len(RowsOfPit(PitOf(j).ID))])

\* what the windows of a pit hold of one quantity of a profile scaled by a plan
Extracted(plan, df, values, ddf) ==
    LET sp == scale_profile(plan, df.distance, values, L_RESAMPLE, H_RESAMPLE)
    IN  extract_samples(sp[1], sp[2], RelativeHeights(ddf), CUTTER_SIZE)

\* C7: the rows a profile has added to comparison_df hold, window by
\* window of its pit, the density, the l and the force_median extracted
\* from the profile scaled by the one plan kept for it in min_scaling_coeff.
\* Stated where the loop stands between two profiles: comparison_df
\* changes nowhere else.
C7_RowsFromBestPlan ==
    (~skip_alignment /\ pc = "smp") =>
        \A j \in DOMAIN min_scaling_coeff :
            (j < smp_i) =>
                LET df == ResampledProfile(Profiles[smp_data[j]], PitOf(j))
                    ddf == DensityDf(PitOf(j).ID)
                    plan == min_scaling_coeff[j]
                    off == RowsBefore(j)
                    density == Extracted(plan, df, df.density, ddf)
                    l == Extracted(plan, df, df.l, ddf)
                    force_median == Extracted(plan, df, df.force_median, ddf)
                IN  /\ Len(comparison_df) >= off + Len(ddf)
                    /\ \A k \in DOMAIN ddf :
                          LET row == comparison_df[off + k]
                          IN  /\ row.ID = PitOf(j).ID
                              /\ row.TOP = ddf[k].TOP
                              /\ row.count_samp = density[k].count_samp
                              /\ row.mean_samp = density[k].mean_samp
                              /\ row.l = l[k].mean_samp
                              /\ row.force_median = force_median[k].mean_samp

\* a profile has added rows from a best plan that stretches it, the best
\* candidate not being the first one, and its rows hold values
C7_Witness ==
    /\ ~skip_alignment
    /\ pc = "smp"
    /\ smp_i > 1
    /\ min_scaling_idx > 0
    /\ \E k \in DOMAIN Last(min_scaling_coeff) : Last(min_scaling_coeff)[k] # 100
    /\ ~HasNaN(Last(comparison_df))

OtherReason(row) == HasNaN(row) \/ row.TYPE \in {"N", "I"}

SameWindow(r1, r2) ==
    r1.index = r2.index /\ r1.ID = r2.ID /\ r1.TOP = r2.TOP /\ r1.count_samp = r2.count_samp

\* C8: result has no row with count_samp below 2 * CUTTER_SIZE; of the
\* rows with no other reason to go, those below the threshold are removed
\* and counted out of result one by one, those exactly at it are kept.
C8_CountThreshold ==
    pc = "done" =>
        LET rows == {k \in DOMAIN comparison_df : ~OtherReason(comparison_df[k])}
            under == {k \in rows : comparison_df[k].count_samp < 2 * CUTTER_SIZE}
        IN  /\ \A m \in DOMAIN result : result[m].count_samp >= 2 * CUTTER_SIZE
            /\ Len(result) = Cardinality(rows) - Cardinality(under)
            /\ \A k \in rows :
                  comparison_df[k].count_samp = 2 * CUTTER_SIZE =>
                      \E m \in DOMAIN result : SameWindow(result[m], comparison_df[k])
            /\ \A k \in under :
                  \A m \in DOMAIN result : ~SameWindow(result[m], comparison_df[k])

\* the table filtered held a window one below the threshold and a window
\* exactly at it, neither with another reason to go
C8_Witness ==
    /\ pc = "done"
    /\ \E k \in DOMAIN comparison_df :
          /\ ~OtherReason(comparison_df[k])
          /\ comparison_df[k].count_samp = 2 * CUTTER_SIZE - 1
    /\ \E k \in DOMAIN comparison_df :
          /\ ~OtherReason(comparison_df[k])
          /\ comparison_df[k].count_samp = 2 * CUTTER_SIZE
          /\ \E m \in DOMAIN result : SameWindow(result[m], comparison_df[k])

\* C9: when the alignment cell is over, however it ended, every profile
\* of the batch that has a pit has its rows in comparison_df.
C9_FailureKeepsBatchGoing ==
    (~skip_alignment /\ pc \in {"filter", "done", "aborted"}) =>
        \A i \in DOMAIN smp_data :
            HasPit(i) => \E k \in DOMAIN comparison_df : comparison_df[k].ID = PitOf(i).ID

\* C10: the step taken at a profile with no pit leaves comparison_df and
\* min_scaling_coeff as they are and goes to the next profile.
C10_MissingPitSkipped ==
    [][(pc = "smp" /\ smp_i <= Len(smp_data) /\ ~HasPit(smp_i)) =>
           /\ pc' = "smp"
           /\ smp_i' = smp_i + 1
           /\ comparison_df' = comparison_df
           /\ min_scaling_coeff' = min_scaling_coeff]_vars


\* the profile the locals of the loop body belong to
Current == IF pc = "smp" THEN smp_i - 1 ELSE smp_i

\* no candidate of the profile has a single valid window
NoValidCandidate ==
    /\ retrieved_skill # << >>
    /\ \A t \in DOMAIN compare_profiles : ValidRows(compare_profiles[t], CUTTER_SIZE) = << >>

\* C11: a profile all of whose NUM_TESTS candidates have been scored
\* without one valid window gets no best plan in min_scaling_coeff and no
\* row in comparison_df.
C11_NoValidCandidateExcluded ==
    NoValidCandidate =>
        /\ Len(min_scaling_coeff) = Current - 1
        /\ \A k \in DOMAIN comparison_df : comparison_df[k].ID # pit_df[1].ID


\* C12: the generation of the candidates of a profile always comes to an
\* end: once the notebook is at line 224 it gets past it.
C12_GenerationTerminates == (pc = "random_tests") ~> (pc # "random_tests")


IsIdentity(plan) == \A k \in DOMAIN plan : plan[k] = 100

\* C13: a candidate plan with every factor 1 gives a scaled profile whose
\* depth axis (in 1/100 mm) and values equal the resampled profile's,
\* element for element and in length.
C13_IdentityPlan ==
    \A t \in DOMAIN scaled_profiles :
        IsIdentity(random_tests[t]) =>
            /\ Len(scaled_profiles[t][1]) = Len(smp_df.distance)
            /\ Len(scaled_profiles[t][2]) = Len(smp_df.density)
            /\ \A i \in DOMAIN smp_df.distance :
                  /\ scaled_profiles[t][1][i] = 100 * smp_df.distance[i]
                  /\ scaled_profiles[t][2][i] = smp_df.density[i]

\* the identity plan of a profile of two sections has been applied
C13_Witness ==
    \E t \in DOMAIN scaled_profiles :
        /\ IsIdentity(random_tests[t])
        /\ Len(random_tests[t]) > 1
        /\ Len(scaled_profiles[t][1]) > L_RESAMPLE


\* C14: a profile scaled by a plan the generator accepts keeps its total
\* length within the overall limit, one sample step allowed for rounding:
\* the last scaled depth (1/100 mm) is at least the last depth times
\* (1 - maxOverallStretch) and at most the sample count times the step
\* times (1 + maxOverallStretch), each widened by one step.
C14_LengthWithinOverall ==
    (call.fn = "scale_profile" /\ call.done) =>
        LET n == Len(call.distance)
            scaled == Last(call.out[1])
        IN  /\ scaled >= Last(call.distance) * (100 - MAX_STRETCH_OVERALL) - 100 * H_RESAMPLE
            /\ scaled <= n * H_RESAMPLE * (100 + MAX_STRETCH_OVERALL) + 100 * H_RESAMPLE


ScaleReturned == call.fn = "scale_profile" /\ call.done

\* where section k starts in the scaled profile (1/100 mm): its start in
\* the input, moved by the length change of the sections before it
ShiftedStart(plan, k) ==
    100 * (k - 1) * L_RESAMPLE + SeqSum([j \in 1..(k - 1) |-> L_RESAMPLE * (plan[j] - 100)])

\* C15: the scaled depth axis is strictly increasing, and the point of
\* input depth d in section k lies in the scaled span of section k, which
\* starts at the shifted start of section k and is L_RESAMPLE times the
\* factor of section k long: at the input offset times that factor.
C15_MonotoneSections ==
    ScaleReturned =>
        LET depth == call.out[1]
        IN  /\ Len(depth) = Len(call.distance)
            /\ \A i \in 1..(Len(depth) - 1) : depth[i] < depth[i + 1]
            /\ \A i \in DOMAIN depth :
                  LET k == (call.distance[i] \div L_RESAMPLE) + 1
                      start == ShiftedStart(call.plan, k)
                  IN  /\ start <= depth[i]
                      /\ depth[i] < start + L_RESAMPLE * call.plan[k]
                      /\ depth[i] - start =
                            (call.distance[i] - (k - 1) * L_RESAMPLE) * call.plan[k]

\* a profile of two sections has been scaled, the first section stretched
\* and the second one compressed
C15_Witness ==
    /\ ScaleReturned
    /\ Len(call.plan) = 2
    /\ call.plan[1] > 100
    /\ call.plan[2] < 100
    /\ Len(call.distance) > L_RESAMPLE + 1


ExtractReturned == call.fn = "extract_samples" /\ call.done

\* the points of the profile extracted whose depth lies in window w
PointsIn(w) ==
    {i \in DOMAIN call.dist :
        /\ 100 * (call.centers[w] - CUTTER_SIZE) <= call.dist[i]
        /\ call.dist[i] <= 100 * (call.centers[w] + CUTTER_SIZE)}

RECURSIVE SumOver(_, _)
SumOver(S, f) ==
    IF S = {} THEN 0 ELSE LET i == CHOOSE i \in S : TRUE IN f[i] + SumOver(S \ {i}, f)

\* C16: for every window the extractor returns the number of points with
\* center - halfHeight <= d <= center + halfHeight as count and the sum of
\* their values over that number as mean; NaN when there is no such point.
C16_CountAndMean ==
    ExtractReturned =>
        /\ Len(call.out) = Len(call.centers)
        /\ \A w \in DOMAIN call.centers :
              /\ call.out[w].count_samp = Cardinality(PointsIn(w))
              /\ IF PointsIn(w) = {} THEN IsNaN(call.out[w].mean_samp)
                 ELSE call.out[w].mean_samp = <<SumOver(PointsIn(w), call.values),
                                                Cardinality(PointsIn(w))>>

\* an extraction with a point on the far edge of one window, points inside
\* another and an empty window
C16_Witness ==
    /\ ExtractReturned
    /\ \E w \in DOMAIN call.centers :
          \E i \in PointsIn(w) : call.dist[i] = 100 * (call.centers[w] + CUTTER_SIZE)
    /\ \E w \in DOMAIN call.centers : PointsIn(w) = {}
    /\ \E w \in DOMAIN call.centers : Cardinality(PointsIn(w)) > 1

\* C17: the extraction of the points given in any order equals, window by
\* window, in count and in mean, the extraction of the points in depth
\* order.
C17_OrderInvariant ==
    ExtractReturned =>
        call.out = extract_samples(call.dist, call.values, call.centers, CUTTER_SIZE)

\* points given out of depth order have been extracted, a window holding
\* some of them and leaving others out
C17_Witness ==
    /\ ExtractReturned
    /\ \E i \in DOMAIN call.order : call.order[i] # i
    /\ \E w \in DOMAIN call.centers :
          /\ PointsIn(w) # {}
          /\ PointsIn(w) # DOMAIN call.dist
          /\ \E i, j \in PointsIn(w), k \in DOMAIN call.dist \ PointsIn(w) :
                \E a, b, c \in DOMAIN call.order :
                    call.order[a] = i /\ call.order[b] = j /\ call.order[c] = k /\ a < c /\ c < b


SkillReturned == call.fn = "calc_skill" /\ call.done

\* the windows of the profile scored that enter the score
ValidWindows ==
    {k \in DOMAIN call.profile :
        /\ ~IsNaN(call.profile[k].mean_samp)
        /\ call.profile[k].count_samp >= 2 * CUTTER_SIZE}

\* retrieved = reference on every window that enters the score
NoError ==
    /\ ValidWindows # {}
    /\ \A k \in ValidWindows :
          call.profile[k].mean_samp[1] = call.profile[k].RHO * call.profile[k].mean_samp[2]

\* two windows that enter the score have different references
ReferenceVaries ==
    \E j, k \in ValidWindows : call.profile[j].RHO # call.profile[k].RHO

ZeroErrors ==
    /\ call.out.rmse = <<0, 1>>
    /\ call.out.rmse_corr = <<0, 1>>
    /\ call.out.mae = <<0, 1>>

\* C18 as stated: when the retrieved values equal the reference values on
\* every valid window, RMSE = 0, bias-corrected RMSE = 0, mean absolute
\* error = 0 and r = 1.
C18_NoErrorPerfectSkill ==
    (SkillReturned /\ NoError) => (ZeroErrors /\ call.out.r = <<1, 1, 1>>)

\* C18 amended: when the retrieved values equal the reference values on
\* every valid window, RMSE, bias-corrected RMSE and mean absolute error
\* are 0; r is 1 when the references of the valid windows are not all the
\* same and undefined (NaN) when they are, a single valid window included.
C18_NoErrorSkill ==
    (SkillReturned /\ NoError) =>
        /\ ZeroErrors
        /\ call.out.r = IF ReferenceVaries THEN <<1, 1, 1>> ELSE NaNr

\* an error-free profile with varying references scored next to windows
\* that do not enter the score and are off their reference
C18_Witness ==
    /\ SkillReturned
    /\ NoError
    /\ ReferenceVaries
    /\ \E k \in DOMAIN call.profile \ ValidWindows : ~IsNaN(call.profile[k].mean_samp)
    /\ call.out.r = <<1, 1, 1>>


ClassifyReturned == call.fn = "classify_profile" /\ call.done

\* the prediction is label a at every sample but sample p, Surrounding
\* samples in all around it
SingleFlip(p, a) ==
    /\ Len(call.profile_prediction) = Surrounding + 1
    /\ p \in DOMAIN call.profile_prediction
    /\ call.profile_prediction[p] # a
    /\ \A i \in DOMAIN call.profile_prediction \ {p} : call.profile_prediction[i] = a

\* C19: a single sample whose predicted label differs from the label of
\* the 10 samples around it is erased by the smoothing, wherever it lies:
\* every sample of the smoothed profile carries the surrounding label.
C19_SingleFlipErased ==
    ClassifyReturned =>
        \A p \in DOMAIN call.profile_prediction, a \in LayerLabels :
            SingleFlip(p, a) =>
                \A i \in DOMAIN call.out.layer_type :
                    /\ call.out.layer_type[i] = LayerType(a)
                    /\ call.out.layer_label[i] = a

\* samples i..j are a layer of the smoothed profile: a maximal run of one
\* layer_type
IsLayer(i, j) ==
    /\ i <= j
    /\ \A k \in i..j : call.out.layer_type[k] = call.out.layer_type[i]
    /\ i = 1 \/ call.out.layer_type[i - 1] # call.out.layer_type[i]
    /\ j = Len(call.out.layer_type) \/ call.out.layer_type[j + 1] # call.out.layer_type[j]

OneCm == 100

\* C20: after the smoothing every layer of a profile (of 2 cm or more) is
\* at least 1 cm thick, whatever the raw predictions.
C20_LayersAtLeastOneCm ==
    (ClassifyReturned /\ Len(call.profile_prediction) * bin_height >= 2 * OneCm) =>
        \A i, j \in DOMAIN call.out.layer_type :
            IsLayer(i, j) => (j - i + 1) * bin_height >= OneCm

SvmDatReturned == call.fn = "svm_dat" /\ call.done

ProcessSiteReturned == call.fn = "process_site" /\ call.done

\* C21: the third feature of every feature vector, of the training table
\* and of a profile that is classified, is log(force_median), never the
\* raw force_median.
C21_ForceLogTransformed ==
    /\ SvmDatReturned =>
          \A i \in DOMAIN call.result : call.out.X[i][3] = log(call.result[i].force_median)
    /\ ProcessSiteReturned =>
          \A p \in DOMAIN call.directory : \A i \in DOMAIN call.out[p].features :
              call.out[p].features[i][3] = log(call.directory[p].force_median[i])

\* C30: process_site returns the layer labels the classifier it is given
\* predicts, whatever classifier the notebook's svclassifier holds.
C30_ClassifierArgumentUsed ==
    ProcessSiteReturned =>
        \A p \in DOMAIN call.directory :
            call.out[p].layer_label =
                classify_profile(predict(call.classifier, sn_df(call.directory[p]))).layer_label

ResampleReturned == call.fn = "resample" /\ call.done

\* the last recorded depth of the profile resampled
SourceEnd == call.profile.distance[Len(call.profile.distance)]

\* C22: the resampled depth axis starts at 0, advances by exactly
\* H_RESAMPLE and covers the target depth (its last sample lies less than
\* one step short of the measured thickness), and density, force_median
\* and l have the length of the depth axis.
C22_CommonDepthAxis ==
    ResampleReturned =>
        LET depth == call.out.distance
            n == Len(depth)
        IN  /\ n > 0
            /\ depth[1] = 0
            /\ \A k \in 1..(n - 1) : depth[k + 1] - depth[k] = H_RESAMPLE
            /\ depth[n] < call.pit.MPD
            /\ call.pit.MPD <= depth[n] + H_RESAMPLE
            /\ Len(call.out.density) = n
            /\ Len(call.out.force_median) = n
            /\ Len(call.out.l) = n

\* a profile resampled to a thickness its penetration does not equal
C22_Witness ==
    /\ ResampleReturned
    /\ call.pit.MPD # SourceEnd
    /\ Len(call.out.distance) > 2
    /\ Len(call.out.distance) # Len(call.profile.distance)

\* the resampled quantity of the call that stands for series
Quantities ==
    << <<call.out.density, call.profile.P2015_density>>,
       <<call.out.force_median, call.profile.force_median>>,
       <<call.out.l, call.profile.L2012_L>> >>

\* C23: whatever the target depth, a profile is produced; every resampled
\* position beyond the last recorded depth takes the last value of the
\* source, no position reaches the target, and a position that is a
\* recorded depth keeps the recorded value.
C23_FlatBeyondSource ==
    ResampleReturned =>
        /\ call.out.distance # << >>
        /\ \A q \in DOMAIN Quantities :
              LET new == Quantities[q][1]
                  old == Quantities[q][2]
              IN  /\ DOMAIN new = DOMAIN call.out.distance
                  /\ \A k \in DOMAIN new :
                        /\ call.out.distance[k] < call.pit.MPD
                        /\ call.out.distance[k] > SourceEnd => new[k] = old[Len(old)]
                        /\ \A j \in DOMAIN old :
                              call.profile.distance[j] = call.out.distance[k] => new[k] = old[j]

\* a profile stretched beyond a last slope that is not flat
C23_Witness ==
    /\ ResampleReturned
    /\ call.pit.MPD > SourceEnd + H_RESAMPLE
    /\ \E q \in DOMAIN Quantities :
          Quantities[q][2][Len(Quantities[q][2])] # Quantities[q][2][Len(Quantities[q][2]) - 1]

\* a profile cut short of its penetration
C23_WitnessTruncated ==
    /\ ResampleReturned
    /\ call.pit.MPD < SourceEnd
    /\ Len(call.out.distance) > 1

RandomTestsReturned == call.fn = "random_tests" /\ call.done

\* the segments of L_RESAMPLE mm in a profile of samples h mm apart
Segments == Ceil(Len(call.depth_array) * call.h, L_RESAMPLE)

\* C24: exactly NUM_TESTS plans are generated for a profile and each has
\* ceil(profile_length / segment_size) entries, whatever the resample step.
C24_OneEntryPerSegment ==
    RandomTestsReturned =>
        /\ Len(call.out.random_tests) = NUM_TESTS
        /\ \A t \in DOMAIN call.out.random_tests : Len(call.out.random_tests[t]) = Segments

\* the cell has been left: the table is the one the later cells use
Downstream == pc \in {"filter", "done"}

\* C25: with skip_alignment set no plan is generated, no profile is scaled,
\* the table used downstream is the persisted one and the file is never
\* written; without it the file is written only once every profile of the
\* batch has been processed, with the table that is then used downstream.
C25_OnePathPerFlag ==
    /\ [](skip_alignment =>
             /\ random_tests = << >> /\ scaled_profiles = << >> /\ min_scaling_coeff = << >>
             /\ pc \notin {"smp", "resample", "random_tests", "compare_profiles",
                           "retrieved_skill", "min_scaling_idx", "result"})
    /\ [](Downstream => comparison_df = pickle)
    /\ [][/\ skip_alignment => pickle' = pickle
          /\ pickle' # pickle =>
                /\ ~skip_alignment
                /\ smp_i > Len(smp_data)
                /\ pickle' = comparison_df
                /\ comparison_df' = comparison_df]_vars

\* a search over two profiles whose table has been written and is in use
C25_Witness ==
    /\ ~skip_alignment
    /\ pc = "done"
    /\ Len(smp_data) > 1
    /\ pickle # << >>
    /\ pickle = comparison_df

SummaryReturned == call.fn = "summary_df" /\ call.done

\* the propagation bias of a profile for the climatology density of its
\* location: thickness times (C / c_in_snow(w99_rho) - 1)
ClimatologyBias(profile) ==
    profile.relative_height[Len(profile.relative_height)] * (SlowDown(profile.w99_rho) - 1000)

\* C26: for every profile delta_h_w99 is the propagation bias for the W99
\* climatology density at its location and delta_h_error is delta_h_smp
\* less that value.
C26_ClimatologyColumn ==
    SummaryReturned =>
        \A p \in DOMAIN call.profiles :
            /\ call.out[p].delta_h_w99 = ClimatologyBias(call.profiles[p])
            /\ call.out[p].delta_h_error =
                  call.out[p].delta_h_smp - ClimatologyBias(call.profiles[p])

DensityDfReturned == call.fn = "density_df" /\ call.done

\* the largest TOP of the pit
PitTop == SeqMax([k \in DOMAIN call.rows |-> call.rows[k].TOP])

\* C27: every window centre relative_height is at least CUTTER_SIZE, equal
\* to it exactly for the measurements at the largest TOP of the pit; every
\* window starts at a depth >= 0 and a measurement with a smaller TOP never
\* has a shallower window than one with a larger TOP.
C27_WindowCentres ==
    DensityDfReturned =>
        /\ Len(call.out) = Len(call.rows)
        /\ \A k \in DOMAIN call.out :
              /\ call.out[k].relative_height >= CUTTER_SIZE
              /\ call.out[k].relative_height = CUTTER_SIZE <=> call.rows[k].TOP = PitTop
              /\ call.out[k].relative_height - CUTTER_SIZE >= 0
        /\ \A j, k \in DOMAIN call.out :
              call.rows[j].TOP < call.rows[k].TOP =>
                  call.out[j].relative_height > call.out[k].relative_height

\* a pit with measurements at three tops, not listed from the top down
C27_Witness ==
    /\ DensityDfReturned
    /\ Len(call.rows) = 3
    /\ call.rows[1].TOP < call.rows[2].TOP
    /\ call.rows[3].TOP < call.rows[1].TOP
    /\ call.out[2].relative_height = CUTTER_SIZE
    /\ call.out[3].relative_height > call.out[1].relative_height

\* the measurements of the pit of the profile in hand, as pit_density lists them
Measurements == RowsOfPit(pit_df[1].ID)

\* the centre of the window of the k-th measurement
WindowCentre(k) ==
    Abs(Measurements[k].TOP * 10 - CUTTER_SIZE
        - 10 * SeqMax([j \in DOMAIN Measurements |-> Measurements[j].TOP]))

\* C28: every candidate's comparison table has one row per measurement of
\* the matched pit, and row k holds the count and mean extracted for the
\* window centred at the k-th measurement's relative_height beside the RHO
\* and TYPE of that k-th measurement.  Stated where the tables have just
\* been built: they change nowhere else.
C28_RowsPairedWithOwnMeasurement ==
    pc = "retrieved_skill" =>
        \A t \in DOMAIN compare_profiles :
            LET table == compare_profiles[t]
                samples == extract_samples(scaled_profiles[t][1], scaled_profiles[t][2],
                                           [k \in DOMAIN Measurements |-> WindowCentre(k)],
                                           CUTTER_SIZE)
            IN  /\ Len(table) = Len(Measurements)
                /\ \A k \in DOMAIN table :
                      /\ table[k].count_samp = samples[k].count_samp
                      /\ table[k].mean_samp = samples[k].mean_samp
                      /\ table[k].relative_height = WindowCentre(k)
                      /\ table[k].RHO = Measurements[k].RHO
                      /\ table[k].TYPE = Measurements[k].TYPE

\* tables built for a pit whose rows do not start pit_density and whose
\* measurements differ in density
C28_Witness ==
    /\ pc = "retrieved_skill"
    /\ compare_profiles # << >>
    /\ Len(Measurements) > 1
    /\ Measurements[1].index # 0
    /\ Measurements[1].RHO # Measurements[2].RHO
    /\ \E t \in DOMAIN compare_profiles : \E k \in DOMAIN compare_profiles[t] :
          compare_profiles[t][k].count_samp > 0

\* C29: the selected index is an index of the candidate list, and while a
\* candidate of the profile has a defined r the selected one has a defined
\* r as well.
C29_UndefinedNeverBest ==
    Selected =>
        /\ min_scaling_idx \in 0..(Len(random_tests) - 1)
        /\ min_scaling_idx + 1 \in DOMAIN retrieved_skill
        /\ (\E t \in DOMAIN retrieved_skill : ~IsNaNr(retrieved_skill[t].r)) =>
              ~IsNaNr(retrieved_skill[min_scaling_idx + 1].r)

\* a candidate with an undefined r stands before the selected one
C29_Witness ==
    /\ Selected
    /\ min_scaling_idx > 0
    /\ ~IsNaNr(retrieved_skill[min_scaling_idx + 1].r)
    /\ \E t \in 1..min_scaling_idx : IsNaNr(retrieved_skill[t].r)

====
